---- MODULE Spec2Model ----
(***************************************************************************)
(* State-machine model of parseTcxFileContent (src/services/tcxParser.ts). *)
(*                                                                         *)
(* Units.  Timestamps are epoch milliseconds and are whole seconds (TCX    *)
(* <Time> values carry second resolution), so the code's "/ 1000" is exact *)
(* integer division.  Distances are whole meters.  Altitudes are held in   *)
(* tenths of a meter, so the 0.2 m noise filter is a difference of 2.      *)
(* Distances, heart rates and cadences are non-negative.                   *)
(* Quotients that are not whole numbers (paces) are kept as num/den.       *)
(* A JavaScript number is an integer, NaN or Infinity; the last two are    *)
(* integers outside the range any computation of the model reaches.        *)
(***************************************************************************)
EXTENDS Integers, Sequences, FiniteSets, TLC

\* Largest number of <Trackpoint> elements in a document.
MaxSamples == 3

\* Largest number of <Trackpoint> elements in a long recording.
MaxSeriesSamples == 302

\* Largest number of seconds handed to a formatting function.
MaxSeconds == 36125

\* Largest number of calls of handleFileUpload.
MaxUploads == 1

\* Largest number of calls of handleFileUpload when uploads overlap.
MaxOverlap == 2

----------------------------------------------------------------------------
\* JavaScript numbers

NaN == -99999999
Infinity == 99999999

IsNaN(x) == x = NaN
Sub(a, b) == IF IsNaN(a) \/ IsNaN(b) THEN NaN ELSE a - b
Mul(a, b) == IF IsNaN(a) \/ IsNaN(b) THEN NaN ELSE a * b
Gt(a, b) == ~IsNaN(a) /\ ~IsNaN(b) /\ a > b
Ge(a, b) == ~IsNaN(a) /\ ~IsNaN(b) /\ a >= b
Lt(a, b) == ~IsNaN(a) /\ ~IsNaN(b) /\ a < b

\* x / 1000 for a timestamp difference (whole seconds, see above)
Div1000(x) == IF IsNaN(x) THEN NaN ELSE x \div 1000

\* Math.round(a / b) for b > 0: the nearest integer, halves toward +Infinity
RoundDiv(a, b) == (2 * a + b) \div (2 * b)

\* a / b kept as a fraction (b = 0 gives Infinity or NaN in the code)
Quot(a, b) == [num |-> a, den |-> b]

Max(a, b) == IF a >= b THEN a ELSE b

----------------------------------------------------------------------------
\* The document: a <Trackpoint> is a record of child elements, each either
\* absent (the empty tuple) or <<text>>; a text is the number it spells,
\* Garbage (not a number) or EmptyText.

Garbage == -99999998
EmptyText == -99999997
Absent == <<>>

\* textContent || dflt
TextOr(t, dflt) == IF t = EmptyText THEN dflt ELSE t
\* parseFloat(text), parseInt(text)
ParseNumber(t) == IF t = Garbage THEN NaN ELSE t
\* new Date(text).getTime()
DateGetTime(t) == IF t = Garbage \/ t = EmptyText THEN NaN ELSE t

Timestamp(point) ==
    IF point.Time = Absent THEN 0 ELSE DateGetTime(point.Time[1])
Distance(point) ==
    IF point.DistanceMeters = Absent THEN 0
    ELSE ParseNumber(TextOr(point.DistanceMeters[1], 0))
HeartRate(point) ==
    IF point.HeartRateBpm = Absent THEN 0
    ELSE ParseNumber(TextOr(point.HeartRateBpm[1], 0))
CadenceOf(point) ==
    IF point.RunCadence # Absent THEN ParseNumber(TextOr(point.RunCadence[1], 0))
    ELSE IF point.Cadence # Absent THEN ParseNumber(TextOr(point.Cadence[1], 0))
    ELSE 0
HasAltitude(point) == point.AltitudeMeters # Absent
Altitude(point) ==
    IF HasAltitude(point) THEN ParseNumber(TextOr(point.AltitudeMeters[1], 0)) ELSE 0

----------------------------------------------------------------------------
\* Formatting (lines 214-226).  A string is the sequence of its characters.

DigitChars == <<"0", "1", "2", "3", "4", "5", "6", "7", "8", "9">>

RECURSIVE Digits(_)
Digits(k) ==
    IF k < 10 THEN <<DigitChars[k + 1]>>
    ELSE Digits(k \div 10) \o <<DigitChars[(k % 10) + 1]>>

\* Number.prototype.toString()
ToStr(k) ==
    IF IsNaN(k) THEN <<"N", "a", "N">>
    ELSE IF k < 0 THEN <<"-">> \o Digits(-k)
    ELSE Digits(k)

\* String.prototype.padStart(2, '0')
PadStart2(str) == IF Len(str) < 2 THEN <<"0">> \o str ELSE str

\* Math.floor(a / b) and Math.floor(a % b), for a divisor b > 0
FloorDiv(a, b) == IF IsNaN(a) THEN NaN ELSE a \div b
FloorRem(a, b) ==
    IF IsNaN(a) THEN NaN ELSE IF a >= 0 THEN a % b ELSE -((-a) % b)

\* (variant: minutes not padded)
FormatDurationUnpadded(seconds) ==
    LET h == FloorDiv(seconds, 3600)
        m == FloorDiv(FloorRem(seconds, 3600), 60)
        sec == FloorRem(seconds, 60)
    IN IF Gt(h, 0)
       THEN ToStr(h) \o <<":">> \o ToStr(m) \o <<":">> \o PadStart2(ToStr(sec))
       ELSE ToStr(m) \o <<":">> \o PadStart2(ToStr(sec))

\* lines 215-220
FormatDuration(seconds) ==
    LET h == FloorDiv(seconds, 3600)
        m == FloorDiv(FloorRem(seconds, 3600), 60)
        sec == FloorRem(seconds, 60)
    IN IF Gt(h, 0)
       THEN ToStr(h) \o <<":">> \o PadStart2(ToStr(m)) \o <<":">> \o PadStart2(ToStr(sec))
       ELSE ToStr(m) \o <<":">> \o PadStart2(ToStr(sec))

PaceSuffix == <<"\"", "/", "k", "m">>

\* (variant: minutes wrap at the hour)
FormatPaceWrapped(secondsPerKm) ==
    LET m == FloorDiv(FloorRem(secondsPerKm, 3600), 60)
        sec == FloorRem(secondsPerKm, 60)
    IN ToStr(m) \o <<"'">> \o PadStart2(ToStr(sec)) \o PaceSuffix

\* lines 222-226
FormatPace(secondsPerKm) ==
    LET m == FloorDiv(secondsPerKm, 60)
        sec == FloorRem(secondsPerKm, 60)
    IN ToStr(m) \o <<"'">> \o PadStart2(ToStr(sec)) \o PaceSuffix

----------------------------------------------------------------------------
\* Program constants

SplitMeters == 1000
ChartPoints == 150
FallbackMaxHr == 190
NoAltitude == -99990
NoiseThreshold == 2
targets == <<1000, 5000, 10000>>

Label(targetDist) ==
    IF targetDist = 1000 THEN "1k" ELSE IF targetDist = 5000 THEN "5k" ELSE "10k"

----------------------------------------------------------------------------
VARIABLES
    pc,             \* "parse", "forEach", "targets", "window", "done", "error";
                    \* "idle" when the parser is not running
    n,              \* trackpoints.length
    trackpoints,    \* the <Trackpoint> elements visited so far
    index,          \* number of elements visited by the forEach
    totalDistance, startTime, endTime,
    heartRateSum, heartRateCount, maxHr,
    cadenceSum, cadenceCount,
    elevationGain, lastAltitude,
    splits, currentSplitStartTime,
    currentSplitHrSum, currentSplitHrCount,
    currentSplitCadenceSum, currentSplitCadenceCount,
    lastSplitDistance, splitIndex,
    seriesSample, rawPoints,
    derived,        \* the post-pass totals (lines 161-168)
    bestEfforts, target, bestTime, left, right,
    result,
    formatted,      \* the call of a formatting function and the text it returned
    history,        \* App state: the workout history, newest first
    stored,         \* localStorage: the persisted workout history
    isLoading, uploadError, viewingWorkout,
    uploads,        \* the calls of handleFileUpload, in the order they started
    parsing,        \* the upload whose document is being parsed, or 0
    now,            \* Date.now() when a workout was last recorded
    keys,           \* localStorage: the other persisted sections
    restoreCall     \* the call of restoreBackup and what it returned

timeVars == <<startTime, endTime>>
hrVars == <<heartRateSum, heartRateCount, maxHr>>
cadVars == <<cadenceSum, cadenceCount>>
altVars == <<elevationGain, lastAltitude>>
splitVars == <<splits, currentSplitStartTime, currentSplitHrSum, currentSplitHrCount,
               currentSplitCadenceSum, currentSplitCadenceCount,
               lastSplitDistance, splitIndex>>
pass1Vars == <<trackpoints, index, totalDistance, timeVars, hrVars, cadVars, altVars,
               splitVars, seriesSample, rawPoints>>
windowVars == <<bestTime, left, right>>
formatVars == <<formatted>>
appVars == <<history, stored, isLoading, uploadError, viewingWorkout, uploads, parsing, now>>
storageVars == <<keys, restoreCall>>
outerVars == <<formatVars, appVars, storageVars>>
vars == <<pc, n, pass1Vars, derived, bestEfforts, target, windowVars, result, outerVars>>

Undefined == -99999996
NoDerived == [totalDurationSeconds |-> 0, avgHr |-> 0, avgCadence |-> Undefined,
              avgPaceSecondsPerKm |-> Quot(0, 1), trainingLoadScore |-> 0]
NoResult == <<>>

\* lines 21-50: the local variables as declared
ParserReset ==
    /\ trackpoints = <<>>
    /\ index = 0
    /\ totalDistance = 0 /\ startTime = 0 /\ endTime = 0
    /\ heartRateSum = 0 /\ heartRateCount = 0 /\ maxHr = 0
    /\ cadenceSum = 0 /\ cadenceCount = 0
    /\ elevationGain = 0 /\ lastAltitude = NoAltitude
    /\ splits = <<>> /\ currentSplitStartTime = 0
    /\ currentSplitHrSum = 0 /\ currentSplitHrCount = 0
    /\ currentSplitCadenceSum = 0 /\ currentSplitCadenceCount = 0
    /\ lastSplitDistance = 0 /\ splitIndex = 1
    /\ seriesSample = <<>> /\ rawPoints = <<>>
    /\ derived = NoDerived
    /\ bestEfforts = <<>> /\ target = 1
    /\ bestTime = Infinity /\ left = 0 /\ right = 0
    /\ result = NoResult

\* no formatting call has been made
NoFormat == [fn |-> "none", seconds |-> 0, text |-> <<>>]

\* App.tsx lines 31, 50-53: the component state before the mount effect, with
\* no upload started
ComponentReset ==
    /\ history = <<>>
    /\ isLoading = FALSE
    /\ uploadError = "null"
    /\ viewingWorkout = <<>>
    /\ uploads = <<>>
    /\ parsing = 0
    /\ now = 0

\* storage.ts lines 3-11: the keys of the persisted sections beside the
\* history; a key that was never written is absent
StorageKeys == {"profile", "readiness", "settings", "plan", "planPrefs"}
NoKeys == [key \in StorageKeys |-> <<>>]
NoRestore == [called |-> FALSE]

AppReset ==
    /\ ComponentReset
    /\ stored = <<>>
    /\ keys = NoKeys
    /\ restoreCall = NoRestore

\* the parser called on its own
Standalone == formatted = NoFormat /\ AppReset

\* the state after construction, for a document of n trackpoints
Init ==
    /\ pc = "parse"
    /\ n \in 0..MaxSamples
    /\ ParserReset
    /\ Standalone

\* (variant: Math.ceil in place of Math.floor)
sampleRateCeil == Max(1, (n + ChartPoints - 1) \div ChartPoints)

\* line 46
sampleRate == Max(1, n \div ChartPoints)

\* lines 11-15
Parse ==
    /\ pc = "parse"
    /\ pc' = IF n = 0 THEN "error" ELSE "forEach"
    /\ UNCHANGED <<n, pass1Vars, derived, bestEfforts, target, windowVars, result, outerVars>>

\* (variant: the end keeps the largest timestamp seen)
EndTimeMaxSeen(timestamp, previous) ==
    IF IsNaN(timestamp) \/ IsNaN(previous) THEN NaN ELSE Max(timestamp, previous)

\* line 62
EndTime(timestamp, previous) == timestamp

\* (variant: the total follows the last distance read)
RunningDistanceLast(dist, total) == IF IsNaN(dist) THEN total ELSE dist

\* lines 69-71: the running total only moves up
RunningDistance(dist, total) == IF Gt(dist, total) THEN dist ELSE total

\* (variant: no noise filter)
CountedRiseUnfiltered(alt, last) ==
    IF last # NoAltitude /\ Gt(alt, last) THEN alt - last ELSE 0

\* lines 116-120: what a sample with altitude alt adds to elevationGain
CountedRise(alt, last) ==
    IF last # NoAltitude /\ Gt(alt, last) /\ alt - last > NoiseThreshold
    THEN alt - last ELSE 0

\* (variant: the reference moves only when the rise was counted)
ReferenceWhenCounted(alt, last) ==
    IF last = NoAltitude \/ ~Gt(alt, last) \/ alt - last > NoiseThreshold
    THEN alt ELSE last

\* line 122: the reference for the next comparison, inside if (altNode)
Reference(alt, last) == alt

\* (variant: Math.floor in place of Math.round)
AverageFloor(sum, count) == IF count > 0 THEN sum \div count ELSE 0

\* lines 136, 137, 162: Math.round(sum / count), or 0 without samples
Average(sum, count) == IF count > 0 THEN RoundDiv(sum, count) ELSE 0

\* (variant: a split closes only beyond the boundary)
SplitClosesStrict(total, k) == total > k * SplitMeters

\* line 134
SplitCloses(total, k) == total >= k * SplitMeters

\* (variant: a loop that pushes one split for every boundary reached)
PushedPerBoundary(list, split, total) ==
    list \o [k \in 1..((total \div SplitMeters) - Len(list)) |-> split]

\* lines 143-149: splits.push, once, inside the if of line 134
Pushed(list, split, total) == Append(list, split)

\* lines 53-159: one iteration of trackpoints.forEach
ProcessPoint(point) ==
    LET timestamp == Timestamp(point)
        dist == Distance(point)
        total == RunningDistance(dist, totalDistance)
        hr == HeartRate(point)
        hrCounts == Gt(hr, 0)
        cad == CadenceOf(point)
        cadCounts == Gt(cad, 0)
        alt == Altitude(point)
        rise == IF HasAltitude(point) THEN CountedRise(alt, lastAltitude) ELSE 0
        splitHrSum == IF hrCounts THEN currentSplitHrSum + hr ELSE currentSplitHrSum
        splitHrCount == IF hrCounts THEN currentSplitHrCount + 1 ELSE currentSplitHrCount
        splitCadSum == IF cadCounts THEN currentSplitCadenceSum + cad
                       ELSE currentSplitCadenceSum
        splitCadCount == IF cadCounts THEN currentSplitCadenceCount + 1
                         ELSE currentSplitCadenceCount
        splitStart == IF index = 0 THEN timestamp ELSE currentSplitStartTime
        closes == SplitCloses(total, splitIndex)
        splitDuration == Div1000(Sub(timestamp, splitStart))
        splitDist == total - lastSplitDistance
        split == [kilometer |-> splitIndex,
                  timeSeconds |-> splitDuration,
                  avgHr |-> Average(splitHrSum, splitHrCount),
                  avgPaceSeconds |-> Quot(Mul(splitDuration, 1000), splitDist),
                  avgCadence |-> Average(splitCadSum, splitCadCount)]
    IN
    /\ trackpoints' = Append(trackpoints, point)
    /\ index' = index + 1
    /\ startTime' = IF index = 0 THEN timestamp ELSE startTime
    /\ endTime' = EndTime(timestamp, endTime)
    /\ totalDistance' = total
    /\ heartRateSum' = IF hrCounts THEN heartRateSum + hr ELSE heartRateSum
    /\ heartRateCount' = IF hrCounts THEN heartRateCount + 1 ELSE heartRateCount
    /\ maxHr' = IF hrCounts /\ hr > maxHr THEN hr ELSE maxHr
    /\ cadenceSum' = IF cadCounts THEN cadenceSum + cad ELSE cadenceSum
    /\ cadenceCount' = IF cadCounts THEN cadenceCount + 1 ELSE cadenceCount
    /\ elevationGain' = elevationGain + rise
    /\ lastAltitude' = IF HasAltitude(point) THEN Reference(alt, lastAltitude)
                       ELSE lastAltitude
    /\ rawPoints' = Append(rawPoints, [time |-> timestamp, dist |-> dist])
    /\ seriesSample' =
         IF index % sampleRate = 0 \/ index = n - 1
         THEN Append(seriesSample,
                     [dist |-> dist, ele |-> alt, hr |-> hr, pace |-> 0, cadence |-> cad])
         ELSE seriesSample
    /\ IF closes
       THEN /\ splits' = Pushed(splits, split, total)
            /\ splitIndex' = splitIndex + 1
            /\ lastSplitDistance' = total
            /\ currentSplitStartTime' = timestamp
            /\ currentSplitHrSum' = 0
            /\ currentSplitHrCount' = 0
            /\ currentSplitCadenceSum' = 0
            /\ currentSplitCadenceCount' = 0
       ELSE /\ splits' = splits
            /\ splitIndex' = splitIndex
            /\ lastSplitDistance' = lastSplitDistance
            /\ currentSplitStartTime' = splitStart
            /\ currentSplitHrSum' = splitHrSum
            /\ currentSplitHrCount' = splitHrCount
            /\ currentSplitCadenceSum' = splitCadSum
            /\ currentSplitCadenceCount' = splitCadCount

ForEach(Points) ==
    /\ pc = "forEach"
    /\ index < n
    /\ \E point \in Points : ProcessPoint(point)
    /\ UNCHANGED <<pc, n, derived, bestEfforts, target, windowVars, result, outerVars>>

\* (variant: the fallback replaces every observed maximum)
TrainingLoadFixedMax(totalDurationSeconds, avgHr, observedMaxHr) ==
    IF IsNaN(totalDurationSeconds) THEN NaN
    ELSE RoundDiv(totalDurationSeconds * avgHr * 10, 60 * FallbackMaxHr)

\* lines 167-168
TrainingLoad(totalDurationSeconds, avgHr, observedMaxHr) ==
    LET safeMaxHr == IF observedMaxHr > 0 THEN observedMaxHr ELSE FallbackMaxHr
    IN IF IsNaN(totalDurationSeconds) THEN NaN
       ELSE RoundDiv(totalDurationSeconds * avgHr * 10, 60 * safeMaxHr)

\* lines 161-168: the totals derived after the forward pass
\* (variant: the quotient without the zero-distance guard)
AvgPaceUnguarded(totalDurationSeconds, total) ==
    Quot(Mul(totalDurationSeconds, 1000), total)

\* line 164
AvgPace(totalDurationSeconds, total) ==
    IF total > 0 THEN Quot(Mul(totalDurationSeconds, 1000), total) ELSE Quot(0, 1)

DerivedTotals ==
    /\ pc = "forEach"
    /\ index = n
    /\ LET totalDurationSeconds == Div1000(Sub(endTime, startTime))
           avgHr == Average(heartRateSum, heartRateCount)
       IN derived' =
            [totalDurationSeconds |-> totalDurationSeconds,
             avgHr |-> avgHr,
             avgCadence |-> IF cadenceCount > 0 THEN RoundDiv(cadenceSum, cadenceCount)
                            ELSE Undefined,
             avgPaceSecondsPerKm |-> AvgPace(totalDurationSeconds, totalDistance),
             trainingLoadScore |-> TrainingLoad(totalDurationSeconds, avgHr, maxHr)]
    /\ pc' = "targets"
    /\ UNCHANGED <<n, pass1Vars, bestEfforts, target, windowVars, result, outerVars>>

\* (variant: the target must be exceeded)
TargetExceeded(total, targetDist) == total > targetDist

\* line 175
TargetReached(total, targetDist) == total >= targetDist

\* line 175, guard false: the target distance was not reached
SkipTarget ==
    /\ pc = "targets"
    /\ target <= Len(targets)
    /\ ~TargetReached(totalDistance, targets[target])
    /\ target' = target + 1
    /\ UNCHANGED <<pc, n, pass1Vars, derived, bestEfforts, windowVars, result, outerVars>>

\* lines 175-177: the window for one target distance starts
BeginTarget ==
    /\ pc = "targets"
    /\ target <= Len(targets)
    /\ TargetReached(totalDistance, targets[target])
    /\ bestTime' = Infinity
    /\ left' = 0
    /\ right' = 0
    /\ pc' = "window"
    /\ UNCHANGED <<n, pass1Vars, derived, bestEfforts, target, result, outerVars>>

\* rawPoints[i] of the code (0-based)
Raw(i) == rawPoints[i + 1]
InRaw(i) == i >= 0 /\ i < Len(rawPoints)

TypeError == -1

\* (variant: the loop condition lets left reach right)
RECURSIVE AdvanceToRight(_, _, _)
AdvanceToRight(l, r, targetDist) ==
    IF ~InRaw(l + 1) THEN TypeError
    ELSE IF Ge(Sub(Raw(r).dist, Raw(l + 1).dist), 0)
         THEN AdvanceToRight(l + 1, r, targetDist)
         ELSE l

\* lines 181-183: the while loop that moves left; reading .dist of
\* rawPoints[l + 1] past the end of the array is a TypeError
RECURSIVE Advance(_, _, _)
Advance(l, r, targetDist) ==
    IF ~InRaw(l + 1) THEN TypeError
    ELSE IF Ge(Sub(Raw(r).dist, Raw(l + 1).dist), targetDist)
         THEN Advance(l + 1, r, targetDist)
         ELSE l

\* lines 178-187: one iteration of the for loop over right
WindowStep ==
    /\ pc = "window"
    /\ right < Len(rawPoints)
    /\ LET targetDist == targets[target]
           d == Sub(Raw(right).dist, Raw(left).dist)
           newLeft == IF Ge(d, targetDist) THEN Advance(left, right, targetDist) ELSE left
           t == Div1000(Sub(Raw(right).time, Raw(newLeft).time))
       IN IF newLeft = TypeError
          THEN /\ pc' = "error"
               /\ UNCHANGED windowVars
          ELSE /\ pc' = pc
               /\ left' = newLeft
               /\ right' = right + 1
               /\ bestTime' = IF Ge(d, targetDist) /\ Lt(t, bestTime) THEN t ELSE bestTime
    /\ UNCHANGED <<n, pass1Vars, derived, bestEfforts, target, result, outerVars>>

\* lines 188-195: the for loop is over; the entry is pushed if a window was found
EndTarget ==
    /\ pc = "window"
    /\ right = Len(rawPoints)
    /\ bestEfforts' =
         IF bestTime # Infinity
         THEN Append(bestEfforts,
                     [distanceLabel |-> Label(targets[target]),
                      timeSeconds |-> bestTime,
                      paceSeconds |-> Quot(bestTime, targets[target] \div 1000)])
         ELSE bestEfforts
    /\ target' = target + 1
    /\ pc' = "targets"
    /\ UNCHANGED <<n, pass1Vars, derived, windowVars, result, outerVars>>

\* the <Calories> element of the document header (lines 18-19)
CaloriesNodes == {Absent, <<300>>}
TotalCalories(node) == IF node = Absent THEN Undefined ELSE ParseNumber(TextOr(node[1], 0))

\* lines 198-211
Return ==
    /\ pc = "targets"
    /\ target > Len(targets)
    /\ \E caloriesNode \in CaloriesNodes :
         result' = <<[totalDistanceMeters |-> totalDistance,
                      totalDurationSeconds |-> derived.totalDurationSeconds,
                      avgHr |-> derived.avgHr,
                      maxHr |-> maxHr,
                      avgCadence |-> derived.avgCadence,
                      elevationGain |-> elevationGain,
                      avgPaceSecondsPerKm |-> derived.avgPaceSecondsPerKm,
                      trainingLoadScore |-> derived.trainingLoadScore,
                      totalCalories |-> TotalCalories(caloriesNode),
                      splits |-> splits,
                      bestEfforts |-> bestEfforts,
                      seriesSample |-> seriesSample]>>
    /\ pc' = "done"
    /\ UNCHANGED <<n, pass1Vars, derived, bestEfforts, target, windowVars, outerVars>>

----------------------------------------------------------------------------
\* Documents

Point(time, dist, hr, alt) ==
    [Time |-> time, DistanceMeters |-> dist, HeartRateBpm |-> hr,
     RunCadence |-> Absent, Cadence |-> Absent, AltitudeMeters |-> alt]

\* Recordings that vary in time and distance: missing and unparseable
\* fields, out-of-order timestamps, distances that fall back or jump more
\* than one kilometer.
TrackPoints ==
    {Point(t, d, Absent, Absent) :
        t \in {<<60000>>, <<360000>>}, d \in {Absent, <<1000>>, <<2000>>}}
    \cup {Point(Absent, Absent, Absent, Absent),
          Point(Absent, <<1000>>, Absent, Absent),
          Point(<<60000>>, <<500>>, Absent, Absent),
          Point(<<360000>>, <<5000>>, Absent, Absent),
          Point(<<360000>>, <<10000>>, Absent, Absent),
          Point(<<Garbage>>, <<1000>>, Absent, Absent),
          Point(<<360000>>, <<Garbage>>, Absent, Absent)}

\* Recordings that vary in heart rate and cadence.
HeartPoints ==
    {Point(<<60000>>, d, hr, Absent) :
        d \in {Absent, <<1000>>, <<2000>>}, hr \in {<<150>>, <<151>>}}
    \cup {Point(<<60000>>, <<1000>>, Absent, Absent),
          Point(<<60000>>, <<2000>>, Absent, Absent),
          Point(<<60000>>, <<1000>>, <<Garbage>>, Absent),
          Point(<<660000>>, Absent, <<150>>, Absent),
          Point(<<660000>>, Absent, <<180>>, Absent),
          [Point(<<660000>>, <<1000>>, Absent, Absent) EXCEPT !.RunCadence = <<170>>,
                                                               !.Cadence = <<85>>],
          [Point(<<660000>>, <<2000>>, Absent, Absent) EXCEPT !.Cadence = <<85>>]}

\* Recordings that vary in altitude (tenths of a meter).
Altitudes == {Absent, <<Garbage>>, <<-10>>, <<10>>, <<12>>, <<13>>, <<15>>}
AltitudePoints ==
    {Point(<<60000>>, d, Absent, alt) : d \in {Absent, <<1000>>}, alt \in Altitudes}

ForEachTrack == ForEach(TrackPoints)
ForEachHeart == ForEach(HeartPoints)
ForEachAltitude == ForEach(AltitudePoints)

Next ==
    \/ Parse
    \/ ForEachTrack
    \/ DerivedTotals
    \/ SkipTarget
    \/ BeginTarget
    \/ WindowStep
    \/ EndTarget
    \/ Return

NextHeart ==
    \/ Parse
    \/ ForEachHeart
    \/ DerivedTotals
    \/ SkipTarget
    \/ BeginTarget
    \/ WindowStep
    \/ EndTarget
    \/ Return

NextAltitude ==
    \/ Parse
    \/ ForEachAltitude
    \/ DerivedTotals
    \/ SkipTarget
    \/ BeginTarget
    \/ WindowStep
    \/ EndTarget
    \/ Return

\* Long recordings at an even pace: sample i lies at 10 * i meters, i seconds
\* after the start; the length decides the chart stride.
SeriesPoint(i) == Point(<<1000 * i>>, <<10 * i>>, Absent, Absent)

InitSeries ==
    /\ pc = "parse"
    /\ n \in 0..MaxSeriesSamples
    /\ ParserReset
    /\ Standalone

ForEachSeries == ForEach({SeriesPoint(index)})

NextSeries ==
    \/ Parse
    \/ ForEachSeries
    \/ DerivedTotals
    \/ SkipTarget
    \/ BeginTarget
    \/ WindowStep
    \/ EndTarget
    \/ Return

\* Recordings of 10 samples at heart rate 150 that span exactly 2000 m in
\* 600 seconds at an even pace: 10 of the 11 points of a 200 m / 60 s grid
\* (one interior point not recorded), or 10 evenly spaced samples rounded to
\* whole meters and seconds.
GridSample(i) == Point(<<60000 * i>>, <<200 * i>>, <<150>>, Absent)
GridRecording(omitted) ==
    [k \in 1..10 |-> GridSample(IF k - 1 < omitted THEN k - 1 ELSE k)]
EvenRecording ==
    [k \in 1..10 |-> Point(<<1000 * RoundDiv(600 * (k - 1), 9)>>,
                           <<RoundDiv(2000 * (k - 1), 9)>>, <<150>>, Absent)]
ScenarioRecordings == {GridRecording(omitted) : omitted \in 1..9} \cup {EvenRecording}

InitScenario ==
    /\ pc = "parse"
    /\ n = 10
    /\ ParserReset
    /\ Standalone

ForEachScenario ==
    /\ pc = "forEach"
    /\ index < n
    /\ \E recording \in ScenarioRecordings :
         /\ SubSeq(recording, 1, index) = trackpoints
         /\ ForEach({recording[index + 1]})

NextScenario ==
    \/ Parse
    \/ ForEachScenario
    \/ DerivedTotals
    \/ SkipTarget
    \/ BeginTarget
    \/ WindowStep
    \/ EndTarget
    \/ Return

----------------------------------------------------------------------------
\* The application: TCX upload, workout history, storage
\* (App.tsx, services/geminiService.ts, services/storage.ts)

\* the uploaded document: no trackpoints, or one kilometer run in 300 s
UploadLengths == {0, 2}
UploadPoint(i) == Point(<<300000 * i>>, <<1000 * i>>, <<150>>, Absent)

\* geminiService.ts line 278: JSON.parse(response.text || '{}'): the two
\* fields asked for, the empty object, or an object that carries fields of
\* the workout record itself
ForgedData == [totalDistanceMeters |-> 42195]
ForgedId == <<"0">>
AiResults ==
    {[aiCoachFeedback |-> "feedback", nextWorkoutSuggestion |-> "suggestion"],
     <<>>,
     [aiCoachFeedback |-> "feedback", parsedData |-> ForgedData, id |-> ForgedId]}

\* an object spread {...under, ...over}: later fields win
Spread(under, over) == over @@ under

\* (m / 1000).toFixed(2) + " km", for a whole number of meters
FormatKm(meters) ==
    LET hundredths == RoundDiv(meters, 10)
    IN ToStr(hundredths \div 100) \o <<".">> \o PadStart2(ToStr(hundredths % 100))
         \o <<" ", "k", "m">>

\* Math.floor of a pace
PaceFloor(pace) == IF IsNaN(pace.num) THEN NaN ELSE pace.num \div pace.den

\* (variant: the AI fields spread last)
AnalysisAiLast(parsedData, aiResult) ==
    Spread([distance |-> FormatKm(parsedData.totalDistanceMeters),
            duration |-> FormatDuration(parsedData.totalDurationSeconds),
            avgPace |-> FormatPace(PaceFloor(parsedData.avgPaceSecondsPerKm)),
            avgHr |-> parsedData.avgHr,
            parsedData |-> parsedData],
           aiResult)

\* geminiService.ts lines 281-288
Analysis(parsedData, aiResult) ==
    Spread(aiResult,
           [distance |-> FormatKm(parsedData.totalDistanceMeters),
            duration |-> FormatDuration(parsedData.totalDurationSeconds),
            avgPace |-> FormatPace(PaceFloor(parsedData.avgPaceSecondsPerKm)),
            avgHr |-> parsedData.avgHr,
            parsedData |-> parsedData])

\* App.tsx lines 399-404
NewWorkout(analysis, clock) ==
    Spread([id |-> ToStr(clock), type |-> "Run", timestamp |-> clock], analysis)

\* (variant: the new record goes in front of the current history)
UpdatedHistoryCurrent(newWorkout, captured, current) == <<newWorkout>> \o current

\* App.tsx line 405: history is the value the handler closed over
UpdatedHistory(newWorkout, captured, current) == <<newWorkout>> \o captured

\* storage.ts lines 71-77: setItem, or a caught failure that writes nothing
SaveHistory(workouts, written) == stored' = IF written THEN workouts ELSE stored

RECURSIVE Filter(_, _)
\* App.tsx line 1458: history.filter(h => h.id !== id)
Filter(workouts, id) ==
    IF workouts = <<>> THEN <<>>
    ELSE IF Head(workouts).id # id THEN <<Head(workouts)>> \o Filter(Tail(workouts), id)
    ELSE Filter(Tail(workouts), id)

NoTrackpointsMessage == "No trackpoints found in TCX file."
AnalyzeFallbackMessage == "Failed to analyze. Please check your API Key and try again."
ApiMessage == "API error"
InvalidBackupMessage == "Invalid backup file format."

UnchangedParser ==
    UNCHANGED <<pc, n, pass1Vars, derived, bestEfforts, target, windowVars, result>>

\* the parser's locals are gone when the call ends
ParserEnds ==
    /\ pc' = "idle"
    /\ n' = 0
    /\ trackpoints' = <<>>
    /\ index' = 0
    /\ totalDistance' = 0 /\ startTime' = 0 /\ endTime' = 0
    /\ heartRateSum' = 0 /\ heartRateCount' = 0 /\ maxHr' = 0
    /\ cadenceSum' = 0 /\ cadenceCount' = 0
    /\ elevationGain' = 0 /\ lastAltitude' = NoAltitude
    /\ splits' = <<>> /\ currentSplitStartTime' = 0
    /\ currentSplitHrSum' = 0 /\ currentSplitHrCount' = 0
    /\ currentSplitCadenceSum' = 0 /\ currentSplitCadenceCount' = 0
    /\ lastSplitDistance' = 0 /\ splitIndex' = 1
    /\ seriesSample' = <<>> /\ rawPoints' = <<>>
    /\ derived' = NoDerived
    /\ bestEfforts' = <<>> /\ target' = 1
    /\ bestTime' = Infinity /\ left' = 0 /\ right' = 0
    /\ result' = NoResult

InFlight(upload) == upload.stage \in {"reading", "analyzing"}

\* App.tsx lines 340-349, 394: handleFileUpload for a TCX file, up to the
\* await; the handler keeps the history of the render it was created in
Start(limit) ==
    /\ pc = "idle"
    /\ Len(uploads) < limit
    /\ isLoading' = TRUE
    /\ uploadError' = "null"
    /\ uploads' = Append(uploads, [stage |-> "reading", history |-> history,
                                   parsedData |-> <<>>])
    /\ UNCHANGED <<history, stored, viewingWorkout, parsing, now, formatVars, storageVars>>
    /\ UnchangedParser

StartUpload == Start(MaxUploads)

\* a further upload is started while earlier ones may still be in flight
StartOverlapping == Start(MaxOverlap)

\* (variant: the loading flag is left as it is)
UploadFailedStillLoading(u, message) ==
    /\ uploadError' = message
    /\ isLoading' = isLoading
    /\ uploads' = [uploads EXCEPT ![u].stage = "failed"]
    /\ UNCHANGED <<history, stored, viewingWorkout, now, formatVars, storageVars>>

\* App.tsx lines 411-417: catch and finally
UploadFailed(u, message) ==
    /\ uploadError' = message
    /\ isLoading' = FALSE
    /\ uploads' = [uploads EXCEPT ![u].stage = "failed"]
    /\ UNCHANGED <<history, stored, viewingWorkout, now, formatVars, storageVars>>

\* geminiService.ts line 216: the file cannot be read; the rejection has no
\* message
ReadFailed ==
    /\ pc = "idle"
    /\ \E u \in 1..Len(uploads) :
         /\ uploads[u].stage = "reading"
         /\ UploadFailed(u, AnalyzeFallbackMessage)
    /\ UNCHANGED parsing
    /\ UnchangedParser

\* geminiService.ts lines 215, 220: the file is read and the parser called
BeginParse ==
    /\ pc = "idle"
    /\ \E u \in 1..Len(uploads) :
         /\ uploads[u].stage = "reading"
         /\ parsing' = u
    /\ \E length \in UploadLengths : n' = length
    /\ pc' = "parse"
    /\ UNCHANGED <<pass1Vars, derived, bestEfforts, target, windowVars, result>>
    /\ UNCHANGED <<history, stored, isLoading, uploadError, viewingWorkout, uploads, now,
                   formatVars, storageVars>>

ForEachUpload == ForEach({UploadPoint(index)})

\* tcxParser.ts line 14: the parser throws into handleFileUpload's catch
ParseFailed ==
    /\ pc = "error"
    /\ parsing # 0
    /\ UploadFailed(parsing, IF n = 0 THEN NoTrackpointsMessage ELSE "TypeError")
    /\ parsing' = 0
    /\ ParserEnds

\* geminiService.ts lines 220-276: the parser returns and the AI is asked
ParseDone ==
    /\ pc = "done"
    /\ parsing # 0
    /\ uploads' = [uploads EXCEPT ![parsing].stage = "analyzing",
                                  ![parsing].parsedData = <<result[1]>>]
    /\ parsing' = 0
    /\ ParserEnds
    /\ UNCHANGED <<history, stored, isLoading, uploadError, viewingWorkout, now, formatVars, storageVars>>

\* geminiService.ts lines 278-288, App.tsx lines 399-409, 415-417: the AI
\* answers and the workout is recorded
AiResolved ==
    /\ pc = "idle"
    /\ \E u \in 1..Len(uploads) :
         /\ uploads[u].stage = "analyzing"
         /\ \E aiResult \in AiResults, written \in BOOLEAN,
               clock \in {now, now + 1} :
              LET newWorkout == NewWorkout(Analysis(uploads[u].parsedData[1], aiResult),
                                           clock)
                  updatedHistory == UpdatedHistory(newWorkout, uploads[u].history, history)
              IN /\ history' = updatedHistory
                 /\ SaveHistory(updatedHistory, written)
                 /\ viewingWorkout' = <<newWorkout>>
                 /\ now' = clock
         /\ uploads' = [uploads EXCEPT ![u].stage = "done"]
    /\ isLoading' = FALSE
    /\ UNCHANGED <<uploadError, parsing, formatVars, storageVars>>
    /\ UnchangedParser

\* geminiService.ts lines 263, 278: the AI call or JSON.parse throws
AiRejected ==
    /\ pc = "idle"
    /\ \E u \in 1..Len(uploads) :
         /\ uploads[u].stage = "analyzing"
         /\ \E message \in {ApiMessage, AnalyzeFallbackMessage} : UploadFailed(u, message)
    /\ UNCHANGED parsing
    /\ UnchangedParser

\* App.tsx line 717: a timeline entry is opened
ViewWorkout ==
    /\ pc = "idle"
    /\ \E k \in 1..Len(history) :
         /\ viewingWorkout # <<history[k]>>
         /\ viewingWorkout' = <<history[k]>>
    /\ UNCHANGED <<history, stored, isLoading, uploadError, uploads, parsing, now, formatVars, storageVars>>
    /\ UnchangedParser

\* App.tsx lines 1455-1463: Delete Log, confirmed
DeleteLog ==
    /\ pc = "idle"
    /\ viewingWorkout # <<>>
    /\ \E written \in BOOLEAN :
         LET newHistory == Filter(history, viewingWorkout[1].id)
         IN /\ history' = newHistory
            /\ SaveHistory(newHistory, written)
    /\ viewingWorkout' = <<>>
    /\ UNCHANGED <<isLoading, uploadError, uploads, parsing, now, formatVars, storageVars>>
    /\ UnchangedParser

\* App.tsx lines 63-81: the page is loaded again; pending handlers are gone
Reloaded(persisted) ==
    /\ history' = persisted
    /\ isLoading' = FALSE
    /\ uploadError' = "null"
    /\ viewingWorkout' = <<>>
    /\ uploads' = [u \in 1..Len(uploads) |->
                     IF InFlight(uploads[u])
                     THEN [uploads[u] EXCEPT !.stage = "dropped"]
                     ELSE uploads[u]]

Reload ==
    /\ pc = "idle"
    /\ history # stored \/ isLoading \/ uploadError # "null" \/ viewingWorkout # <<>>
    /\ Reloaded(stored)
    /\ UNCHANGED <<stored, parsing, now, formatVars, storageVars>>
    /\ UnchangedParser

\* A backup file is a JSON text: not parseable, or the text of a value
\* (null, or a backup object whose sections are null or present).
Json(value) == [parses |-> TRUE, value |-> <<value>>]
JsonNull == [parses |-> TRUE, value |-> <<>>]
NotJson == [parses |-> FALSE, value |-> <<>>]

\* a JavaScript truth test on a number (Undefined: the field is missing)
Truthy(number) == number # 0 /\ number # Undefined /\ ~IsNaN(number)

\* (variant: any backup object is accepted)
RestoresAnyObject(jsonString) ==
    /\ jsonString.parses
    /\ jsonString.value # <<>>

\* storage.ts lines 160-162, 173-176: whether restoreBackup returns true
Restores(jsonString) ==
    /\ jsonString.parses
    /\ jsonString.value # <<>>
    /\ Truthy(jsonString.value[1].version)

\* storage.ts lines 165-170: the sections after the saves; every section
\* but the plan is saved only if it is present in the backup, the plan is
\* saved or removed; written: setItem succeeds
RestoredKeys(backup, written) ==
    [key \in StorageKeys |->
        IF backup[key] # Absent THEN (IF written THEN backup[key] ELSE keys[key])
        ELSE IF key = "plan" THEN Absent
        ELSE keys[key]]
RestoredHistory(backup, written) ==
    IF backup.history # Absent /\ written THEN backup.history[1] ELSE stored

\* backups that carry a history section at most
BackupWorkout == [id |-> <<"b">>, type |-> "Run", timestamp |-> 0]
HistoryBackup(version, workouts) ==
    [version |-> version, history |-> workouts] @@ NoKeys
Backups ==
    {HistoryBackup(0, Absent),
     HistoryBackup(1, Absent),
     HistoryBackup(1, <<<<>>>>),
     HistoryBackup(1, <<<<BackupWorkout>>>>)}

\* App.tsx lines 126-146, storage.ts lines 159-177: Import Backup
ImportBackup ==
    /\ pc = "idle"
    /\ \E backup \in Backups, written \in BOOLEAN :
         IF ~Restores(Json(backup))
         THEN /\ uploadError # InvalidBackupMessage
              /\ uploadError' = InvalidBackupMessage
              /\ UNCHANGED <<history, stored, keys, isLoading, viewingWorkout, uploads>>
         ELSE LET persisted == RestoredHistory(backup, written)
              IN /\ persisted # stored \/ history # stored \/ isLoading
                      \/ uploadError # "null" \/ viewingWorkout # <<>>
                 /\ stored' = persisted
                 /\ keys' = RestoredKeys(backup, written)
                 /\ Reloaded(persisted)
    /\ UNCHANGED <<parsing, now, formatVars, restoreCall>>
    /\ UnchangedParser

\* storage.ts lines 45-52, 62-69, 79-86, 96-103, 117-133: the load functions
\* (null, or a default, for an absent key)
DefaultSettings == <<"themeColor cyan">>
DefaultPlanPrefs == <<"Sunday Tuesday">>
LoadProfile == keys.profile
LoadReadiness == keys.readiness
LoadSettings == IF keys.settings # Absent THEN keys.settings ELSE DefaultSettings
LoadHistory == stored
LoadPlan == keys.plan
LoadPlanPrefs == IF keys.planPrefs # Absent THEN keys.planPrefs ELSE DefaultPlanPrefs

\* the texts handed to restoreBackup: not JSON, null, and backup objects
\* with a missing, zero or positive version and every choice of sections
Sections == {Absent, <<"from backup">>}
BackupObjects ==
    {[version |-> version, profile |-> profile, readiness |-> readiness,
      settings |-> settings, plan |-> plan, planPrefs |-> planPrefs,
      history |-> workouts] :
        version \in {Undefined, 0, 1},
        profile \in Sections, readiness \in Sections, settings \in Sections,
        plan \in Sections, planPrefs \in Sections,
        workouts \in {Absent, <<<<>>>>, <<<<BackupWorkout>>>>}}
BackupStrings == {NotJson, JsonNull} \cup {Json(backup) : backup \in BackupObjects}

\* storage.ts lines 159-177: restoreBackup
RestoreBackup ==
    /\ ~restoreCall.called
    /\ \E jsonString \in BackupStrings, written \in BOOLEAN :
         /\ restoreCall' = [called |-> TRUE, jsonString |-> jsonString,
                            written |-> written, returned |-> Restores(jsonString)]
         /\ IF Restores(jsonString)
            THEN /\ keys' = RestoredKeys(jsonString.value[1], written)
                 /\ stored' = RestoredHistory(jsonString.value[1], written)
            ELSE UNCHANGED <<keys, stored>>
    /\ UNCHANGED <<history, isLoading, uploadError, viewingWorkout, uploads, parsing, now,
                   formatVars>>
    /\ UnchangedParser

\* lines 215-226: a call of an exported formatting function
FormatDurationCall ==
    /\ formatted.fn = "none"
    /\ formatted' = [formatted EXCEPT !.fn = "formatDuration",
                                      !.text = FormatDuration(formatted.seconds)]
    /\ UNCHANGED <<pc, n, pass1Vars, derived, bestEfforts, target, windowVars, result,
                   appVars, storageVars>>

FormatPaceCall ==
    /\ formatted.fn = "none"
    /\ formatted' = [formatted EXCEPT !.fn = "formatPace",
                                      !.text = FormatPace(formatted.seconds)]
    /\ UNCHANGED <<pc, n, pass1Vars, derived, bestEfforts, target, windowVars, result,
                   appVars, storageVars>>

\* A formatting function called on a whole number of seconds
InitFormat ==
    /\ pc = "idle"
    /\ n = 0
    /\ ParserReset
    /\ AppReset
    /\ \E seconds \in 0..MaxSeconds :
         formatted = [fn |-> "none", seconds |-> seconds, text |-> <<>>]

NextFormat ==
    \/ FormatDurationCall
    \/ FormatPaceCall

\* The application from its first load with nothing persisted
InitApp ==
    /\ pc = "idle"
    /\ n = 0
    /\ ParserReset
    /\ Standalone

NextApp ==
    \/ StartUpload
    \/ ReadFailed
    \/ BeginParse
    \/ Parse
    \/ ForEachUpload
    \/ DerivedTotals
    \/ SkipTarget
    \/ BeginTarget
    \/ WindowStep
    \/ EndTarget
    \/ Return
    \/ ParseFailed
    \/ ParseDone
    \/ AiResolved
    \/ AiRejected
    \/ ViewWorkout
    \/ DeleteLog
    \/ Reload
    \/ ImportBackup

\* Two uploads that may overlap, and nothing else
NextOverlap ==
    \/ StartOverlapping
    \/ ReadFailed
    \/ BeginParse
    \/ Parse
    \/ ForEachUpload
    \/ DerivedTotals
    \/ SkipTarget
    \/ BeginTarget
    \/ WindowStep
    \/ EndTarget
    \/ Return
    \/ ParseFailed
    \/ ParseDone
    \/ AiResolved
    \/ AiRejected

\* restoreBackup called on a storage that holds any choice of sections
OldWorkout == [id |-> <<"a">>, type |-> "Run", timestamp |-> 0]
InitStorage ==
    /\ pc = "idle"
    /\ n = 0
    /\ ParserReset
    /\ formatted = NoFormat
    /\ ComponentReset
    /\ stored \in {<<>>, <<OldWorkout>>}
    /\ keys \in [StorageKeys -> {Absent, <<"stored before">>}]
    /\ restoreCall = NoRestore

NextStorage == RestoreBackup

Spec == Init /\ [][Next]_vars
SpecOverlap == InitApp /\ [][NextOverlap]_vars
SpecStorage == InitStorage /\ [][NextStorage]_vars
SpecApp == InitApp /\ [][NextApp]_vars
SpecFormat == InitFormat /\ [][NextFormat]_vars
SpecScenario == InitScenario /\ [][NextScenario]_vars
SpecSeries == InitSeries /\ [][NextSeries]_vars
SpecHeart == Init /\ [][NextHeart]_vars
SpecAltitude == Init /\ [][NextAltitude]_vars

----------------------------------------------------------------------------
\* The document read so far, as the numbers the parser extracts

Seen == 1..Len(trackpoints)
TimeAt(i) == Timestamp(trackpoints[i])
DistAt(i) == Distance(trackpoints[i])
HrAt(i) == HeartRate(trackpoints[i])
Out == result[1]

\* the largest distance among the samples read (a NaN is no distance)
MaxDistanceSeen ==
    LET ds == {DistAt(i) : i \in Seen} \ {NaN}
    IN IF ds = {} THEN 0 ELSE CHOOSE d \in ds : \A e \in ds : d >= e

\* the largest timestamp among the samples read (Math.max: NaN if any is NaN)
MaxTimeSeen ==
    LET ts == {TimeAt(i) : i \in Seen}
    IN IF NaN \in ts THEN NaN ELSE CHOOSE t \in ts : \A u \in ts : t >= u

HasEntry(targetDist) ==
    \E k \in 1..Len(bestEfforts) : bestEfforts[k].distanceLabel = Label(targetDist)
Entry(targetDist) ==
    bestEfforts[CHOOSE k \in 1..Len(bestEfforts) :
                  bestEfforts[k].distanceLabel = Label(targetDist)]
TargetSet == {targets[k] : k \in 1..Len(targets)}

\* durations of all windows i <= j of the recording that span targetDist
WindowTimes(targetDist) ==
    {Div1000(Sub(TimeAt(w[2]), TimeAt(w[1]))) :
        w \in {v \in Seen \X Seen :
                 v[1] <= v[2] /\ Ge(Sub(DistAt(v[2]), DistAt(v[1])), targetDist)}}

----------------------------------------------------------------------------
\* C1: the parse fails exactly when the document has no trackpoints: with
\* n >= 1 trackpoints, whatever their fields hold, it never reaches the error
\* state, can always take its next step until it has returned, and returns a
\* result after the forward pass has visited all n; with n = 0 it fails
\* and no result is ever produced.
ParseFailsIffNoTrackpoints ==
    /\ pc = "error" => n = 0
    /\ n = 0 => pc \in {"parse", "error"} /\ result = NoResult
    /\ pc = "done" => n >= 1 /\ Len(result) = 1 /\ index = n /\ target > Len(targets)
    /\ n >= 1 /\ pc # "done" => ENABLED Next

\* a result was returned, best efforts included, for a recording with an
\* unparseable timestamp and a distance that falls back
DegradedRecordingParsed ==
    /\ pc = "done"
    /\ Len(bestEfforts) > 0
    /\ \E i \in Seen : IsNaN(TimeAt(i))
    /\ \E i, j \in Seen : i < j /\ Gt(DistAt(i), DistAt(j))

\* C2: the number of splits is floor(D / 1000) for total distance D.
SplitCountIsDistanceFloor ==
    pc = "done" => Len(Out.splits) = Out.totalDistanceMeters \div SplitMeters

\* C3: a reported best effort is the minimum duration over all windows
\* i <= j whose distance span reaches the target.
BestEffortIsMinimumWindow ==
    pc = "done" =>
      \A d \in TargetSet :
        HasEntry(d) =>
          /\ Entry(d).timeSeconds \in WindowTimes(d)
          /\ \A t \in WindowTimes(d) : ~Lt(t, Entry(d).timeSeconds)

\* C4 as stated: an entry for d is present exactly when the total distance
\* reaches d.
BestEffortPresentIffDistanceReached ==
    pc = "done" =>
      \A d \in TargetSet : HasEntry(d) <=> Out.totalDistanceMeters >= d

\* C4 as amended: an entry for d is present only if the total distance
\* reaches d, at most one entry per target is pushed (none is zeroed), and it
\* is present whenever the total reaches d, the first sample lies at least d
\* below the total and every timestamp is a number.
BestEffortPresence ==
    pc = "done" =>
      /\ \A k \in 1..Len(bestEfforts) :
           /\ \E d \in TargetSet : bestEfforts[k].distanceLabel = Label(d)
           /\ \A m \in 1..Len(bestEfforts) :
                bestEfforts[m].distanceLabel = bestEfforts[k].distanceLabel => m = k
      /\ \A d \in TargetSet :
           /\ HasEntry(d) => Out.totalDistanceMeters >= d
           /\ ( /\ Out.totalDistanceMeters >= d
                /\ Ge(Out.totalDistanceMeters - d, DistAt(1))
                /\ \A i \in Seen : ~IsNaN(TimeAt(i)) )
              => HasEntry(d)

\* the total reaches 5000 m with the 1k entry present and the 5k entry
\* omitted, and another target is omitted because the total is below it
BestEffortOmittedAboveTarget ==
    /\ pc = "done"
    /\ HasEntry(1000)
    /\ Out.totalDistanceMeters >= 5000 /\ ~HasEntry(5000)
    /\ Out.totalDistanceMeters < 10000 /\ ~HasEntry(10000)

\* C5: the running total distance never decreases from one sample to the
\* next, it is the largest distance among the samples read so far, and the
\* returned totalDistanceMeters is the largest distance of the recording.
TotalDistanceIsRunningMaximum ==
    /\ [][totalDistance' >= totalDistance]_vars
    /\ [](totalDistance = MaxDistanceSeen)
    /\ [](pc = "done" => Out.totalDistanceMeters = MaxDistanceSeen)

\* a recording whose distance falls back below an earlier sample was returned
DistanceFellBack ==
    /\ pc = "done"
    /\ \E i, j \in Seen : i < j /\ Gt(DistAt(i), DistAt(j)) /\ DistAt(i) = totalDistance
    /\ Gt(MaxDistanceSeen, DistAt(Len(trackpoints)))

\* the altitude-bearing sample that precedes sample i of document tp (0: none)
PrevAltitudeIndex(tp, i) ==
    LET js == {j \in 1..(i - 1) : HasAltitude(tp[j])}
    IN IF js = {} THEN 0 ELSE CHOOSE j \in js : \A k \in js : j >= k

\* the rise of sample i over the preceding altitude-bearing sample (0: none)
RiseAt(tp, i) ==
    LET j == PrevAltitudeIndex(tp, i)
    IN IF HasAltitude(tp[i]) /\ j # 0 /\ Gt(Altitude(tp[i]), Altitude(tp[j]))
       THEN Altitude(tp[i]) - Altitude(tp[j]) ELSE 0

\* every altitude-bearing sample lies strictly below the one before it
AltitudeStrictlyDecreasing ==
    \A i \in Seen :
      HasAltitude(trackpoints[i]) /\ PrevAltitudeIndex(trackpoints, i) # 0 =>
        Lt(Altitude(trackpoints[i]),
           Altitude(trackpoints[PrevAltitudeIndex(trackpoints, i)]))

\* C6: elevationGain is >= 0 after every sample and never decreases; a
\* sample changes it only by its rise over the preceding altitude-bearing
\* sample, and only when that rise exceeds 0.2 m (2 tenths); a strictly
\* decreasing altitude profile returns elevationGain = 0.
ElevationGainFiltered ==
    /\ [](elevationGain >= 0)
    /\ [][elevationGain' >= elevationGain]_vars
    /\ [][elevationGain' # elevationGain =>
            LET rise == RiseAt(trackpoints', Len(trackpoints'))
            IN /\ Len(trackpoints') = Len(trackpoints) + 1
               /\ rise > 2
               /\ elevationGain' = elevationGain + rise]_vars
    /\ [](pc = "done" /\ AltitudeStrictlyDecreasing => Out.elevationGain = 0)

\* a returned recording with a counted climb and a rise of at most 0.2 m
\* that was left out
SmallRiseFiltered ==
    /\ pc = "done"
    /\ Out.elevationGain > 0
    /\ \E i \in Seen : RiseAt(trackpoints, i) \in 1..2

\* C7: the i-th split has kilometer = i, there is one split per kilometer
\* boundary the cumulative distance crossed, and a total below 1000 m gives
\* no split.
SplitsOnePerKilometerCrossed ==
    pc = "done" =>
      /\ \A i \in 1..Len(Out.splits) : Out.splits[i].kilometer = i
      /\ \A km \in 1..(Out.totalDistanceMeters \div SplitMeters) :
           \E i \in 1..Len(Out.splits) : Out.splits[i].kilometer = km
      /\ Out.totalDistanceMeters < SplitMeters => Len(Out.splits) = 0

\* the running total distance after sample i, from the document
RunningMaxAt(i) ==
    LET ds == {DistAt(j) : j \in 1..i} \ {NaN}
    IN IF ds = {} THEN 0 ELSE CHOOSE d \in ds : \A e \in ds : d >= e

\* the sample that closes split k: the first one after the close of split
\* k - 1 at which the running total has reached k kilometers
RECURSIVE CloseIndex(_)
CloseIndex(k) ==
    IF k = 0 THEN 0
    ELSE LET prev == CloseIndex(k - 1)
             is == {i \in Seen : i > prev /\ RunningMaxAt(i) >= k * 1000}
         IN IF is = {} THEN Len(trackpoints) + 1
            ELSE CHOOSE i \in is : \A j \in is : i <= j

RECURSIVE SumHr(_)
SumHr(is) ==
    IF is = {} THEN 0
    ELSE LET i == CHOOSE j \in is : TRUE IN HrAt(i) + SumHr(is \ {i})

\* the samples with heart rate > 0 in the window of split k
SplitHrSamples(k) ==
    LET previousClose == CloseIndex(k - 1)
        close == CloseIndex(k)
    IN {i \in (previousClose + 1)..close : i \in Seen /\ Gt(HrAt(i), 0)}

\* C8: the avgHr of a split is 0 when no sample with heart rate > 0 lies in
\* its window (after the close of the previous split, up to and including
\* its own closing sample), and otherwise the mean of exactly those samples
\* rounded to the nearest integer, halves up.
SplitAvgHrOverWindow ==
    \A k \in 1..Len(splits) :
      LET is == SplitHrSamples(k)
          a == splits[k].avgHr
      IN IF is = {} THEN a = 0
         ELSE /\ 2 * Cardinality(is) * a <= 2 * SumHr(is) + Cardinality(is)
              /\ 2 * SumHr(is) + Cardinality(is) < 2 * Cardinality(is) * (a + 1)

\* two splits: one whose mean 150.5 is rounded up, one without heart rate
SplitWithAndWithoutHr ==
    /\ Len(splits) = 2
    /\ \E k \in 1..2 : SplitHrSamples(k) = {}
    /\ \E k \in 1..2 : Cardinality(SplitHrSamples(k)) = 2 /\ splits[k].avgHr = 151

\* C9 as stated: the duration runs from sample 0 to the largest timestamp
\* seen.
DurationEndsAtMaxTimestamp ==
    pc = "done" => Out.totalDurationSeconds = Div1000(Sub(MaxTimeSeen, TimeAt(1)))

\* C9 as amended: the start is the timestamp of sample 0, the end is the
\* timestamp of the sample read last, and totalDurationSeconds is the
\* difference of the last and the first timestamp in seconds; that is the
\* largest timestamp minus the first when no sample is later than the last.
DurationEndsAtLastTimestamp ==
    /\ index >= 1 => startTime = TimeAt(1) /\ endTime = TimeAt(index)
    /\ pc = "done" =>
         /\ Out.totalDurationSeconds = Div1000(Sub(TimeAt(n), TimeAt(1)))
         /\ (\A i \in Seen : ~Gt(TimeAt(i), TimeAt(n))) /\ ~IsNaN(MaxTimeSeen) =>
              Out.totalDurationSeconds = Div1000(Sub(MaxTimeSeen, TimeAt(1)))

\* a returned recording in which an earlier sample is later than the last
OutOfOrderRecordingParsed ==
    /\ pc = "done"
    /\ \E i \in Seen : Gt(TimeAt(i), TimeAt(n))
    /\ ~IsNaN(Out.totalDurationSeconds)

\* the largest heart rate > 0 of the recording, 0 if there is none
ObservedMaxHr ==
    LET hs == {HrAt(i) : i \in {j \in Seen : Gt(HrAt(j), 0)}}
    IN IF hs = {} THEN 0 ELSE CHOOSE h \in hs : \A g \in hs : h >= g

\* C10: trainingLoadScore is (totalDurationSeconds / 60) * (avgHr /
\* effectiveMaxHr) * 10 rounded to the nearest integer (halves up), with the
\* reported avgHr and with effectiveMaxHr the observed maximum heart rate, or
\* 190 when that is 0.
TrainingLoadFormula ==
    pc = "done" =>
      LET effectiveMaxHr == IF ObservedMaxHr # 0 THEN ObservedMaxHr ELSE 190
          num == Out.totalDurationSeconds * Out.avgHr * 10
          den == 60 * effectiveMaxHr
          score == Out.trainingLoadScore
      IN /\ Out.maxHr = ObservedMaxHr
         /\ IF IsNaN(Out.totalDurationSeconds) THEN IsNaN(score)
            ELSE /\ 2 * den * score <= 2 * num + den
                 /\ 2 * num + den < 2 * den * (score + 1)

\* a ten-minute recording with average heart rate below the observed
\* maximum and a positive score
TrainingLoadScored ==
    /\ pc = "done"
    /\ Out.totalDurationSeconds = 600
    /\ Out.avgHr > 0 /\ Out.avgHr < Out.maxHr
    /\ Out.trainingLoadScore > 0

\* the index of the k-th chart point in a long recording (10 m per sample)
SeriesIndex(k) == seriesSample[k].dist \div 10

\* C11: with n samples and stride N = max(1, floor(n / 150)) the chart
\* series holds exactly the samples read so far whose index i has
\* i mod N = 0 or i = n - 1, in index order and each once; the returned
\* series starts with sample 0 and ends with sample n - 1.
SeriesIsStrideAndLast ==
    LET N == IF n \div 150 >= 1 THEN n \div 150 ELSE 1
        chosen == {i \in 0..(index - 1) : i % N = 0 \/ i = n - 1}
    IN /\ Len(seriesSample) = Cardinality(chosen)
       /\ \A k \in 1..Len(seriesSample) :
            /\ SeriesIndex(k) \in chosen
            /\ seriesSample[k] = [dist |-> Distance(trackpoints[SeriesIndex(k) + 1]),
                                  ele |-> 0, hr |-> 0, pace |-> 0, cadence |-> 0]
            /\ k > 1 => SeriesIndex(k - 1) < SeriesIndex(k)
       /\ pc = "done" =>
            /\ Out.seriesSample = seriesSample
            /\ SeriesIndex(1) = 0
            /\ SeriesIndex(Len(seriesSample)) = n - 1

\* a returned recording with stride 2 whose last sample is off the stride
SeriesEndsOffStride ==
    /\ pc = "done"
    /\ n \div 150 = 2
    /\ (n - 1) % 2 = 1
    /\ Len(seriesSample) = (n \div 2) + 1

\* a parsed field, with a failed parse replaced by the field's default 0
OrDefault(value) == IF IsNaN(value) THEN 0 ELSE value

\* C12: a missing or unparseable field of a sample takes its default 0 and
\* the parse completes: the returned recording's chart distances and its
\* total duration are those of the same samples with every failed field
\* read as 0.
FieldFailureTakesDefault ==
    pc = "done" =>
        /\ \A k \in 1..Len(Out.seriesSample) :
             Out.seriesSample[k].dist = OrDefault(DistAt(k))
        /\ Out.totalDurationSeconds =
             Div1000(OrDefault(TimeAt(n)) - OrDefault(TimeAt(1)))

\* "about 300 s": within one 60 s sampling interval of 300 s
About300(seconds) == 240 <= seconds /\ seconds <= 360

\* C14: a 10-sample recording spanning exactly 2000 m in 600 seconds at
\* heart rate 150 returns exactly 2 splits, each of about 300 s with avgHr
\* 150, a 1k best effort of about 300 s and no 5k or 10k entry.
ScenarioTwoSplitsOneEffort ==
    pc = "done" =>
        /\ Out.totalDistanceMeters = 2000
        /\ Out.totalDurationSeconds = 600
        /\ Out.avgHr = 150
        /\ Len(Out.splits) = 2
        /\ \A k \in 1..2 :
             /\ Out.splits[k].kilometer = k
             /\ About300(Out.splits[k].timeSeconds)
             /\ Out.splits[k].avgHr = 150
        /\ Out.splits[1].timeSeconds + Out.splits[2].timeSeconds = 600
        /\ Len(Out.bestEfforts) = 1
        /\ Out.bestEfforts[1].distanceLabel = "1k"
        /\ About300(Out.bestEfforts[1].timeSeconds)

\* the evenly spaced recording has been parsed: its kilometers took 333 s
\* and 267 s
ScenarioParsed ==
    /\ pc = "done"
    /\ trackpoints = EvenRecording
    /\ Out.splits[1].timeSeconds = 333
    /\ Out.bestEfforts[1].timeSeconds = 333

\* Reading a rendered text back: the value of a run of decimal digits, and
\* the positions of a separator character.
DigitValue(char) == CHOOSE d \in 0..9 : DigitChars[d + 1] = char
IsDigits(str) == Len(str) > 0 /\ \A k \in 1..Len(str) : \E d \in 0..9 : DigitChars[d + 1] = str[k]
RECURSIVE Value(_)
Value(str) ==
    IF Len(str) = 0 THEN 0
    ELSE 10 * Value(SubSeq(str, 1, Len(str) - 1)) + DigitValue(str[Len(str)])
Positions(str, char) == {k \in 1..Len(str) : str[k] = char}
Unpadded(str) == IsDigits(str) /\ (Len(str) > 1 => str[1] # "0")
TwoDigits(str) == IsDigits(str) /\ Len(str) = 2

\* C15: formatDuration(s), s >= 0 whole, renders H:MM:SS with
\* H = floor(s/3600), MM = floor((s mod 3600)/60), SS = s mod 60, MM and SS
\* zero-padded to two digits, and renders M:SS with unpadded minutes exactly
\* when s < 3600; H*3600 + MM*60 + SS = s; 125 gives "2:05" and 3725 gives
\* "1:02:05".
FormatDurationRenders ==
    formatted.fn = "formatDuration" =>
        LET s == formatted.seconds
            text == formatted.text
            colons == Positions(text, ":")
        IN /\ Cardinality(colons) = (IF s < 3600 THEN 1 ELSE 2)
           /\ LET c1 == CHOOSE k \in colons : \A j \in colons : k <= j
                  c2 == CHOOSE k \in colons : \A j \in colons : k >= j
                  first == SubSeq(text, 1, c1 - 1)
                  middle == SubSeq(text, c1 + 1, c2 - 1)
                  last == SubSeq(text, c2 + 1, Len(text))
              IN /\ Unpadded(first)
                 /\ TwoDigits(last)
                 /\ Value(last) = s % 60
                 /\ IF s < 3600
                    THEN Value(first) * 60 + Value(last) = s
                    ELSE /\ TwoDigits(middle)
                         /\ Value(first) = s \div 3600
                         /\ Value(middle) = (s % 3600) \div 60
                         /\ Value(first) * 3600 + Value(middle) * 60 + Value(last) = s
           /\ s = 125 => text = <<"2", ":", "0", "5">>
           /\ s = 3725 => text = <<"1", ":", "0", "2", ":", "0", "5">>

\* a duration above one hour whose minutes and seconds both need padding
DurationPadded ==
    /\ formatted.fn = "formatDuration"
    /\ formatted.seconds = 3725
    /\ Len(formatted.text) = 7

\* C16: formatPace(p), p >= 0 whole, renders M'SS"/km with M = floor(p/60),
\* not capped at 59, and SS = p mod 60 zero-padded to two digits;
\* M*60 + SS = p; 330 gives 5'30"/km.
FormatPaceRenders ==
    formatted.fn = "formatPace" =>
        LET p == formatted.seconds
            text == formatted.text
            quotes == Positions(text, "'")
        IN /\ Cardinality(quotes) = 1
           /\ LET q == CHOOSE k \in quotes : TRUE
                  minutes == SubSeq(text, 1, q - 1)
                  secs == SubSeq(text, q + 1, q + 2)
              IN /\ Unpadded(minutes)
                 /\ TwoDigits(secs)
                 /\ Value(minutes) = p \div 60
                 /\ Value(secs) = p % 60
                 /\ Value(minutes) * 60 + Value(secs) = p
                 /\ SubSeq(text, q + 3, Len(text)) = <<"\"", "/", "k", "m">>
           /\ p = 330 => text = <<"5", "'", "3", "0", "\"", "/", "k", "m">>

\* a pace slower than one hour per kilometer: the minutes exceed 59
PaceAboveAnHour ==
    /\ formatted.fn = "formatPace"
    /\ formatted.seconds = 3725
    /\ formatted.text = <<"6", "2", "'", "0", "5", "\"", "/", "k", "m">>

\* C17: avgPaceSecondsPerKm = totalDurationSeconds / (totalDistanceMeters /
\* 1000) when the total distance is positive (a duration that is not a
\* number gives a pace that is not a number), and is exactly 0, with no
\* division, when the total distance is 0.
AvgPaceIsDurationPerKilometer ==
    pc = "done" =>
        LET pace == Out.avgPaceSecondsPerKm
            duration == Out.totalDurationSeconds
            total == Out.totalDistanceMeters
        IN /\ pace.den # 0
           /\ total >= 0
           /\ IF total > 0
              THEN IF IsNaN(duration) THEN IsNaN(pace.num)
                   ELSE pace.num = duration * 1000 /\ pace.den = total
              ELSE pace.num = 0 /\ pace.den = 1

\* a recording that took time but covered no distance, and one that
\* covered a kilometer, are both reachable; this is the former
PaceOfStandingStill ==
    /\ pc = "done"
    /\ Out.totalDistanceMeters = 0
    /\ ~IsNaN(Out.totalDurationSeconds)
    /\ Out.totalDurationSeconds > 0
    /\ Out.avgPaceSecondsPerKm = Quot(0, 1)

\* the workout records held in memory, in storage and in the detail view
Recorded ==
    {history[k] : k \in 1..Len(history)} \cup {stored[k] : k \in 1..Len(stored)}
        \cup {viewingWorkout[k] : k \in 1..Len(viewingWorkout)}
Completes(u) == uploads[u].stage = "analyzing" /\ uploads'[u].stage = "done"
Fails(u) == InFlight(uploads[u]) /\ uploads'[u].stage = "failed"

\* C18: when the parser throws during a TCX upload, the error message is
\* set for display, the loading flag becomes false and the history in
\* memory and in storage is what it was: no step of a failing upload (its
\* start, the parse, the catch) changes either; every upload that ends,
\* successfully or not, leaves the loading flag false.
UploadFailureHandled ==
    [][/\ \A u \in 1..Len(uploads) :
            /\ Fails(u) =>
                 /\ uploadError' # "null"
                 /\ pc = "error" => uploadError' = "No trackpoints found in TCX file."
                 /\ isLoading' = FALSE
                 /\ history' = history /\ stored' = stored
            /\ Completes(u) => isLoading' = FALSE
       /\ (Len(uploads') > Len(uploads) \/ pc # "idle") =>
            history' = history /\ stored' = stored]_vars

\* an upload of a document without trackpoints has failed; the restored
\* history is still there
ParseFailureShown ==
    /\ \E u \in 1..Len(uploads) : uploads[u].stage = "failed"
    /\ uploadError = "No trackpoints found in TCX file."
    /\ ~isLoading
    /\ history = <<BackupWorkout>>
    /\ stored = <<BackupWorkout>>

\* C19: the parsedData of a workout record is the value the parser
\* returned for the upload: the fields of the AI response lie beside it on
\* the record and neither replace it nor change a field of it, and no
\* record held anywhere carries other parsed data.
ParsedDataKept ==
    [][/\ (pc = "done" /\ pc' = "idle") => uploads'[parsing].parsedData = <<result[1]>>
       /\ \A u \in 1..Len(uploads) :
            Completes(u) =>
              /\ history'[1].parsedData = uploads[u].parsedData[1]
              /\ viewingWorkout' = <<history'[1]>>
              /\ stored' # stored => stored'[1] = history'[1]
              /\ \E aiResult \in AiResults :
                   \A field \in DOMAIN aiResult \ {"distance", "duration", "avgPace",
                                                   "avgHr", "parsedData"} :
                      history'[1][field] = aiResult[field]
       /\ \A workout \in Recorded :
            "parsedData" \in DOMAIN workout =>
               /\ workout.parsedData.totalDistanceMeters = 1000
               /\ workout.parsedData.totalDurationSeconds = 300
               /\ Len(workout.parsedData.splits) = 1]_vars

\* an AI response that carried its own parsedData and id has been recorded:
\* the id was taken over, the parsed data was not
ForgedFieldsBeside ==
    \E k \in 1..Len(history) :
        /\ {"parsedData", "aiCoachFeedback"} \subseteq DOMAIN history[k]
        /\ history[k].id = ForgedId
        /\ history[k].aiCoachFeedback = "feedback"
        /\ history[k].parsedData.totalDistanceMeters = 1000

IsSuffix(old, new) ==
    /\ Len(new) >= Len(old)
    /\ SubSeq(new, Len(new) - Len(old) + 1, Len(new)) = old
OtherThanViewed(workout) == workout.id # viewingWorkout[1].id

\* C20 (as stated): the history is append-only: no step removes or alters a
\* record of the history in memory or in storage.
HistoryAppendOnly ==
    [][IsSuffix(history, history') /\ IsSuffix(stored, stored')]_vars

\* C20 (amended): the history in memory changes in three ways only: a
\* completing upload sets it to the new record followed by the history as
\* it was when that upload started; Delete Log removes every record with
\* the viewed workout's id; a page load sets it to the persisted history.
\* The persisted history changes only by being overwritten with the new
\* history in memory.  Records are never altered.
HistoryChangesByUploadDeleteLoad ==
    [][/\ \/ history' = history
          \/ \E u \in 1..Len(uploads) :
               /\ Completes(u)
               /\ history' # <<>>
               /\ Tail(history') = uploads[u].history
          \/ /\ viewingWorkout # <<>>
             /\ viewingWorkout' = <<>>
             /\ history' = SelectSeq(history, OtherThanViewed)
          \/ /\ history' = stored'
             /\ isLoading' = FALSE /\ uploadError' = "null" /\ viewingWorkout' = <<>>
             /\ \A u \in 1..Len(uploads') : ~InFlight(uploads'[u])
       /\ stored' = stored \/ stored' = history']_vars

\* a workout was recorded and deleted while a backup's record stayed: then
\* the upload's record is gone from memory and storage
RecordedWorkoutDeleted ==
    /\ \E u \in 1..Len(uploads) : uploads[u].stage = "done"
    /\ history = <<BackupWorkout>>
    /\ stored = <<BackupWorkout>>
    /\ viewingWorkout = <<>>
    /\ ~isLoading

\* C21: one sample closes at most one split, even when the distance jumps
\* over several kilometer boundaries: after k samples at most k splits
\* exist, the list grows by at most one entry per step, and only in a step
\* that processes a sample, which leaves the earlier entries as they are.
AtMostOneSplitPerSample ==
    /\ [](Len(splits) <= index /\ splitIndex = Len(splits) + 1)
    /\ [][/\ Len(splits') <= Len(splits) + 1
          /\ splits' # splits =>
               /\ index' = index + 1
               /\ SubSeq(splits', 1, Len(splits)) = splits]_vars

\* the first sample lies beyond the second kilometer boundary and has
\* closed one split only
JumpedOverBoundaries ==
    /\ pc = "forEach"
    /\ index = 1
    /\ totalDistance >= 2 * SplitMeters
    /\ Len(splits) = 1

\* the most recent altitude-bearing sample read (0: none)
LastAltitudeIndex == PrevAltitudeIndex(trackpoints, Len(trackpoints) + 1)

\* every altitude-bearing sample read lies at most 0.2 m (2 tenths) above
\* the altitude-bearing sample before it
OnlySmallSteps == \A i \in Seen : RiseAt(trackpoints, i) <= 2

\* C22: the reference altitude for the next comparison is the raw altitude
\* of the most recent altitude-bearing sample, counted or not (the sentinel
\* while there is none): samples without altitude leave it unchanged, the
\* first altitude sample adds nothing, and a climb whose every step is at
\* most 0.2 m adds 0 to elevationGain whatever it amounts to.
AltitudeReferenceIsLastRaw ==
    /\ lastAltitude = (IF LastAltitudeIndex = 0 THEN NoAltitude
                       ELSE Altitude(trackpoints[LastAltitudeIndex]))
    /\ (\A i \in Seen : PrevAltitudeIndex(trackpoints, i) = 0) => elevationGain = 0
    /\ OnlySmallSteps => elevationGain = 0

\* a climb of 0.3 m in steps of 0.2 m and 0.1 m has been read and nothing
\* was counted
SlowClimbAddsNothing ==
    /\ index = 3
    /\ \A i \in Seen : HasAltitude(trackpoints[i])
    /\ RiseAt(trackpoints, 2) = 2
    /\ RiseAt(trackpoints, 3) = 1
    /\ Altitude(trackpoints[3]) - Altitude(trackpoints[1]) = 3
    /\ elevationGain = 0

\* C23: in the best-effort pass of a target the left pointer never moves
\* backward, is strictly below the right pointer whenever a window is
\* evaluated, before and after it advances (so index left + 1 is within the
\* sample list), and advances at most n - 1 times.
WindowPointersOrdered ==
    pc = "window" =>
        /\ 0 <= left /\ left <= n - 1
        /\ left = 0 \/ left < right - 1
        /\ right < Len(rawPoints)
             /\ Ge(Sub(Raw(right).dist, Raw(left).dist), targets[target]) =>
               LET advanced == Advance(left, right, targets[target])
               IN /\ left < right
                  /\ InRaw(left + 1)
                  /\ advanced # TypeError
                  /\ left <= advanced /\ advanced < right
                  /\ InRaw(advanced + 1)

\* the pass of a target is over and the left pointer has advanced
LeftPointerAdvanced ==
    /\ pc = "window"
    /\ right = Len(rawPoints)
    /\ left >= 1
    /\ bestTime # Infinity

\* C24: every emitted split covers a strictly positive distance, so the
\* quotient that gives its avgPaceSeconds never has a zero denominator.
EverySplitCoversDistance ==
    \A k \in 1..Len(splits) : splits[k].avgPaceSeconds.den > 0

\* the position of a best-effort label in the order 1k, 5k, 10k
LabelRank(label) == CHOOSE k \in 1..Len(targets) : Label(targets[k]) = label

\* C28: bestEfforts holds 0 to 3 entries in the order 1k, 5k, 10k, no label
\* twice, and presence is downward closed for every input: a 10k entry
\* comes with a 5k entry and a 5k entry with a 1k entry.
BestEffortsDownwardClosed ==
    pc = "done" =>
        /\ Len(bestEfforts) <= 3
        /\ \A i, j \in 1..Len(bestEfforts) :
             i < j => LabelRank(bestEfforts[i].distanceLabel)
                        < LabelRank(bestEfforts[j].distanceLabel)
        /\ HasEntry(10000) => HasEntry(5000)
        /\ HasEntry(5000) => HasEntry(1000)

\* the sum of timeSeconds over the first k splits (NaN if one of them is)
RECURSIVE SplitTimeSum(_)
SplitTimeSum(k) ==
    IF k = 0 THEN 0
    ELSE IF IsNaN(SplitTimeSum(k - 1)) \/ IsNaN(splits[k].timeSeconds) THEN NaN
    ELSE SplitTimeSum(k - 1) + splits[k].timeSeconds
TimestampsNonDecreasing ==
    /\ \A i \in Seen : ~IsNaN(TimeAt(i))
    /\ \A i, j \in Seen : i <= j => TimeAt(i) <= TimeAt(j)

\* C29: the sum of timeSeconds over the emitted splits equals (timestamp of
\* the sample that closed the last split - timestamp of sample 0) / 1000,
\* and with non-decreasing timestamps it never exceeds totalDurationSeconds.
SplitDurationsTelescope ==
    /\ Len(splits) > 0 =>
         SplitTimeSum(Len(splits))
           = Div1000(Sub(TimeAt(CloseIndex(Len(splits))), TimeAt(1)))
    /\ pc = "done" /\ TimestampsNonDecreasing =>
         SplitTimeSum(Len(splits)) <= Out.totalDurationSeconds

\* C30: if no sample has a heart rate > 0 then avgHr = 0, maxHr = 0 and
\* trainingLoadScore = 0 whatever the duration: the 190 fallback never
\* changes the score.
NoHeartRateScoresZero ==
    pc = "done" /\ (\A i \in Seen : ~Gt(HrAt(i), 0)) =>
        /\ Out.avgHr = 0
        /\ Out.maxHr = 0
        /\ Out.trainingLoadScore = 0


\* two uploads overlap: the second was started before the first recorded its
\* workout, so both handlers closed over the same history
UploadsOverlapped ==
    /\ Len(uploads) = 2
    /\ uploads[1].stage = "done"
    /\ uploads[2].stage = "done"
    /\ uploads[1].history = uploads[2].history

\* C25: when two uploads were in flight at the same time and both completed,
\* the history holds both new workout records, with distinct ids.
BothOverlappingUploadsRecorded ==
    UploadsOverlapped =>
        /\ Len(history) = Len(uploads[1].history) + 2
        /\ history[1].id # history[2].id

\* the backup object handed to the call of restoreBackup
RestoredBackup == restoreCall.jsonString.value[1]

\* C26: after restoreBackup returned true and the writes succeeded, each load
\* function returns the backup's section, whatever the storage held before.
LoadsReturnBackupSections ==
    (restoreCall.called /\ restoreCall.returned /\ restoreCall.written) =>
        /\ LoadProfile = RestoredBackup.profile
        /\ LoadSettings = RestoredBackup.settings
        /\ LoadReadiness = RestoredBackup.readiness
        /\ <<LoadHistory>> = RestoredBackup.history
        /\ LoadPlan = RestoredBackup.plan
        /\ LoadPlanPrefs = RestoredBackup.planPrefs

\* the text is not valid JSON, is null, or has a missing or zero version
Unusable(jsonString) ==
    \/ ~jsonString.parses
    \/ jsonString.value = <<>>
    \/ jsonString.value[1].version \in {Undefined, 0}

\* C27: restoreBackup returns false for a text that is not valid JSON, is
\* null, or has a missing or zero version, and a call that returns false
\* leaves every storage key as it was before the call.
FailedRestoreWritesNothing ==
    [][(~restoreCall.called /\ restoreCall'.called) =>
          /\ Unusable(restoreCall'.jsonString) => ~restoreCall'.returned
          /\ ~restoreCall'.returned => keys' = keys /\ stored' = stored]_vars

\* C27 witness: a backup with version 0 and every section present was
\* refused on a storage whose keys all hold earlier values
ZeroVersionBackupRefused ==
    /\ restoreCall.called
    /\ ~restoreCall.returned
    /\ restoreCall.jsonString.parses
    /\ restoreCall.jsonString.value # <<>>
    /\ RestoredBackup.version = 0
    /\ \A key \in StorageKeys :
         RestoredBackup[key] # Absent /\ keys[key] = <<"stored before">>
    /\ RestoredBackup.history = <<<<BackupWorkout>>>>
    /\ stored = <<OldWorkout>>

====
